---- MODULE Spec2Model ----
(***************************************************************************)
(* A model of balcon: the solar-irradiance model of SunIntensityBar        *)
(* (calculateAirMass, calculateAtmosphericTransmittance,                   *)
(* calculateIntensity), under SpecIntensity and SpecArguments; the day     *)
(* sampler of SunlightTimer (computeSunPositionData), step by step under   *)
(* SpecSampler and as interleaved calls under SpecInterleaved; and the     *)
(* component SunlightTimer with its settings, its effects and its chart,   *)
(* under SpecApp; the chart's axis, rows and hover label under SpecChart;  *)
(* and the rays of the map (SunRays) under SpecRays.                       *)
(*                                                                         *)
(* Numbers.  A JavaScript number x with |x| < 4 is the integer x * Scale   *)
(* (fixed point, 2e-9 resolution).  An air mass, which ranges up to 38,    *)
(* is the integer AM * AMScale (2e-8 resolution).  Angles, radians in the  *)
(* source, are integers in hundredths of a degree: 9000 is pi/2.           *)
(* Math.sin, Math.cos and ** are tables of their values on the angles the  *)
(* model uses, Math.exp is a Taylor series.                                *)
(***************************************************************************)
EXTENDS Integers, Sequences, FiniteSets, TLC

VARIABLES
    sunPosition, surface, out, prev,                  \* the irradiance model's inputs and results
    zone, lat, lon, date, intervalMinutes,            \* the sampler's environment and inputs
    pc, d, end, sunPositions, sunPositionData, sunTimes,
    queries,                                          \* the calls the provider has received
    now, env, url,                                    \* wall clock, build environment, location
    azm, effects, rendered,                           \* SunlightTimer: state, pending effects, chart
    event, events, runs,                              \* the last input event, their number, the runs
    frames,                                           \* interleaved calls of the sampler
    hoverPosition, dom,                               \* the chart: hover state, rendered elements
    rays                                              \* SunRays: its loop and the rays pushed

ivars == <<sunPosition, surface, out, prev>>
svars == <<zone, lat, lon, date, intervalMinutes, pc, d, end, sunPositions,
           sunPositionData, sunTimes, queries>>
avars == <<now, env, url, azm, effects, rendered, event, events, runs>>
fvars == <<frames>>
dvars == <<hoverPosition, dom, rays>>
vars == <<ivars, svars, avars, fvars, dvars>>

----------------------------------------------------------------------------
(* Fixed-point arithmetic standing for the double arithmetic of the source *)

Scale == 5 * (10 ^ 8)
AMScale == Scale \div 10

\* NaN, the number that is not a number: every operation on it gives NaN and
\* every comparison with it is false
NaN == -2147483647
isNaN(x) == x = NaN

Abs(x) == IF x < 0 THEN -x ELSE x
Sgn(x) == IF x < 0 THEN -1 ELSE 1

\* x + y, -x and x <= y
Add(x, y) == IF isNaN(x) \/ isNaN(y) THEN NaN ELSE x + y
Neg(x) == IF isNaN(x) THEN NaN ELSE -x
LessEq(x, y) == ~isNaN(x) /\ ~isNaN(y) /\ x <= y

\* <<q, r>> with a * b = q * c + r and 0 <= r < c, for 0 <= a < c, b >= 0;
\* by doubling, so that no intermediate value leaves 32 bits (3 * c < 2^31).
RECURSIVE MulDivQR(_, _, _)
MulDivQR(a, b, c) ==
    IF b = 0 THEN <<0, 0>>
    ELSE LET h == MulDivQR(a, b \div 2, c)
             t == 2 * h[2] + (b % 2) * a
         IN  <<2 * h[1] + t \div c, t % c>>

\* floor(a * b / c) for a, b >= 0 and c > 0
MulDiv(a, b, c) == (a \div c) * b + MulDivQR(a % c, b, c)[1]

\* x * y and x / n of two numbers, rounded toward zero as the nearest model value
Mul(x, y) ==
    IF isNaN(x) \/ isNaN(y) THEN NaN
    ELSE Sgn(x) * Sgn(y) * MulDiv(Abs(x), Abs(y), Scale)
DivInt(x, n) == IF isNaN(x) THEN NaN ELSE Sgn(x) * (Abs(x) \div n)

\* Math.sin on [0, pi/2], in hundredths of a degree
SinTable ==
       (0 :> 0)
    @@ (1 :> 87266)
    @@ (2 :> 174533)
    @@ (100 :> 8726203)
    @@ (1500 :> 129409523)
    @@ (3000 :> 250000000)
    @@ (4500 :> 353553391)
    @@ (6000 :> 433012702)
    @@ (7500 :> 482962913)
    @@ (8900 :> 499923848)
    @@ (8998 :> 499999970)
    @@ (8999 :> 499999992)
    @@ (9000 :> 500000000)

Sin(a) ==
    IF isNaN(a) THEN NaN
    ELSE LET r == a % 36000
         IN  IF r <= 9000 THEN SinTable[r]
             ELSE IF r <= 18000 THEN SinTable[18000 - r]
             ELSE IF r <= 27000 THEN -SinTable[r - 18000]
             ELSE -SinTable[36000 - r]

Cos(a) == Sin(Add(a, 9000))

\* (altitude in degrees + 6.07995) ** -1.6364, by altitude
PowTable ==
       (0 :> 26073302)
    @@ (1 :> 26003278)
    @@ (100 :> 20322662)
    @@ (1500 :> 3408708)
    @@ (3000 :> 1414686)
    @@ (4500 :> 800920)
    @@ (6000 :> 525543)
    @@ (7500 :> 376031)
    @@ (8900 :> 289751)
    @@ (8998 :> 284930)
    @@ (9000 :> 284833)
    @@ (12000 :> 182588)

KastenYoungPower(altitude) == IF isNaN(altitude) THEN NaN ELSE PowTable[altitude]

\* Math.exp: exp(y) = exp(y / 8) ^ 8, exp(y / 8) by its Taylor series
ExpTerms == 12

RECURSIVE ExpSeries(_, _, _, _)
ExpSeries(y, n, term, acc) ==
    IF n > ExpTerms THEN acc
    ELSE LET t == DivInt(Mul(term, y), n)
         IN  ExpSeries(y, n + 1, t, acc + t)

Square(x) == Mul(x, x)

Exp(y) ==
    IF isNaN(y) THEN NaN
    ELSE Square(Square(Square(ExpSeries(DivInt(y, 8), 1, Scale, Scale))))

\* a mutant: a NaN argument is ignored
Max_IgnoringNaN(a, b) ==
    IF isNaN(a) THEN b ELSE IF isNaN(b) THEN a ELSE IF a >= b THEN a ELSE b

\* Math.max and Math.min
Max(a, b) == IF isNaN(a) \/ isNaN(b) THEN NaN ELSE IF a >= b THEN a ELSE b
Min(a, b) == IF isNaN(a) \/ isNaN(b) THEN NaN ELSE IF a <= b THEN a ELSE b

----------------------------------------------------------------------------
(* SunIntensityBar: the irradiance model                                   *)

Infinity == 2147483647

KastenYoungCoefficient == 252860000

\* sin(alt) + 0.50572 * (alt_deg + 6.07995) ** -1.6364
airMassDenominator(altitude) ==
    Add(Sin(altitude), Mul(KastenYoungCoefficient, KastenYoungPower(altitude)))

\* 1 / x as an air mass, for x >= 0: 1 / 0 is Infinity
Reciprocal(x) ==
    IF isNaN(x) THEN NaN
    ELSE IF x = 0 THEN Infinity
    ELSE MulDiv(AMScale, Scale, x)

\* a mutant: the horizon itself is not special-cased
calculateAirMass_StrictHorizon(altitude) ==
    IF ~isNaN(altitude) /\ altitude < 0 THEN Infinity
    ELSE Reciprocal(airMassDenominator(altitude))

\* 1 / (sin(alt) + 0.50572 * (alt_deg + 6.07995) ** -1.6364)
calculateAirMass(altitude) ==
    IF LessEq(altitude, 0) THEN Infinity
    ELSE Reciprocal(airMassDenominator(altitude))

tau0 == 400000000
k == 40000000

\* k * (airMass - 1), the air mass being in units of 1 / AMScale
Decay(airMass) ==
    IF isNaN(airMass) THEN NaN
    ELSE LET excess == airMass - AMScale
         IN  Sgn(excess) * MulDiv(Abs(excess), k, AMScale)

calculateAtmosphericTransmittance(airMass) ==
    IF airMass = Infinity THEN 0
    ELSE LET transmittance == Mul(tau0, Exp(Neg(Decay(airMass))))
         IN  Max(0, Min(Scale, transmittance))

\* a mutant: east and north exchanged
sunDirection_Swapped(pos) ==
    [x |-> Mul(Cos(pos.azimuth), Cos(pos.altitude)),
     y |-> Mul(Sin(pos.azimuth), Cos(pos.altitude)),
     z |-> Sin(pos.altitude)]

sunDirection(pos) ==
    [x |-> Mul(Sin(pos.azimuth), Cos(pos.altitude)),
     y |-> Mul(Cos(pos.azimuth), Cos(pos.altitude)),
     z |-> Sin(pos.altitude)]

\* a mutant: the tilt measured from the vertical
surfaceNormal_FromVertical(sideAzimuth, surfaceAltitude) ==
    [x |-> Mul(Sin(sideAzimuth), Sin(surfaceAltitude)),
     y |-> Mul(Cos(sideAzimuth), Sin(surfaceAltitude)),
     z |-> Cos(surfaceAltitude)]

surfaceNormal(sideAzimuth, surfaceAltitude) ==
    [x |-> Mul(Sin(sideAzimuth), Cos(surfaceAltitude)),
     y |-> Mul(Cos(sideAzimuth), Cos(surfaceAltitude)),
     z |-> Sin(surfaceAltitude)]

dotProduct(dir, n) == Add(Add(Mul(dir.x, n.x), Mul(dir.y, n.y)), Mul(dir.z, n.z))

\* a mutant: the dot product is not clamped at 0
geometricIntensity_Unclamped(pos, sideAzimuth, surfaceAltitude) ==
    dotProduct(sunDirection(pos), surfaceNormal(sideAzimuth, surfaceAltitude))

\* a mutant: the magnitude of the dot product
geometricIntensity_Magnitude(pos, sideAzimuth, surfaceAltitude) ==
    Abs(dotProduct(sunDirection(pos), surfaceNormal(sideAzimuth, surfaceAltitude)))

geometricIntensity(pos, sideAzimuth, surfaceAltitude) ==
    Max(0, dotProduct(sunDirection(pos), surfaceNormal(sideAzimuth, surfaceAltitude)))

calculateIntensity(pos, sideAzimuth, surfaceAltitude) ==
    Mul(geometricIntensity(pos, sideAzimuth, surfaceAltitude),
        calculateAtmosphericTransmittance(calculateAirMass(pos.altitude)))

----------------------------------------------------------------------------
(* The irradiance model applied to sun positions and surfaces              *)

MaxQuarterTurns == 3

SunAzimuths == {9000 * q : q \in 0..MaxQuarterTurns}
SunAltitudes == {-9000, -3000, 0, 1, 100, 1500, 3000, 4500, 6000, 7500, 8900, 8998, 9000}
SideAzimuths == {4500 * q : q \in 0..(2 * MaxQuarterTurns + 1)} \ {13500, 22500}
SurfaceAltitudes == {0, 4500, 9000}

NoResult == [done |-> FALSE]

Evaluation(pos, sideAzimuth, surfaceAltitude) ==
    [done |-> TRUE,
     altitude |-> pos.altitude,
     airMass |-> calculateAirMass(pos.altitude),
     transmittance |-> calculateAtmosphericTransmittance(calculateAirMass(pos.altitude)),
     geometric |-> geometricIntensity(pos, sideAzimuth, surfaceAltitude),
     intensity |-> calculateIntensity(pos, sideAzimuth, surfaceAltitude),
     args |-> <<pos, sideAzimuth, surfaceAltitude>>]

IdleSampler ==
    /\ zone = [before |-> 0, after |-> 0, at |-> 0]
    /\ lat = 0 /\ lon = 0 /\ date = 0 /\ intervalMinutes = 0
    /\ pc = "idle" /\ d = 0 /\ end = 0
    /\ sunPositions = <<>> /\ sunPositionData = <<>>
    /\ sunTimes = [set |-> FALSE]
    /\ queries = <<>>

\* SunlightTimer is not mounted
IdleApp ==
    /\ now = 0 /\ env = <<>> /\ url = <<>>
    /\ azm = 0 /\ effects = <<>> /\ rendered = <<>>
    /\ event = [field |-> "none"] /\ events = 0 /\ runs = <<>>

IdleFrames == frames = <<>>

NoHover == [set |-> FALSE]
NoDom == [rendered |-> FALSE]
NoRays == [pc |-> "idle"]

\* no chart and no map are mounted
IdleDisplay == hoverPosition = NoHover /\ dom = NoDom /\ rays = NoRays

InitIntensity ==
    /\ sunPosition \in [azimuth : SunAzimuths, altitude : SunAltitudes]
    /\ surface \in [sideAzimuth : SideAzimuths, surfaceAltitude : SurfaceAltitudes]
    /\ out = NoResult
    /\ prev = NoResult
    /\ IdleSampler
    /\ IdleApp
    /\ IdleFrames
    /\ IdleDisplay

\* one bar segment: calculateIntensity(data.position, sideAzimuth, surfaceAltitude)
Calculate ==
    /\ ~out.done
    /\ out' = Evaluation(sunPosition, surface.sideAzimuth, surface.surfaceAltitude)
    /\ UNCHANGED <<sunPosition, surface, prev, svars, avars, fvars, dvars>>

\* the next sample of the day: the sun at another altitude, the surface unchanged
NextSample ==
    /\ out.done
    /\ ~prev.done
    /\ \E altitude \in SunAltitudes :
          sunPosition' = [sunPosition EXCEPT !.altitude = altitude]
    /\ prev' = out
    /\ out' = NoResult
    /\ UNCHANGED <<surface, svars, avars, fvars, dvars>>

NextIntensity == Calculate \/ NextSample

SpecIntensity == InitIntensity /\ [][NextIntensity]_vars

\* arguments that are not a position of the sun or a surface of the chart:
\* NaN, and an altitude beyond the zenith
ArgAzimuths == {NaN, 0, 18000}
ArgAltitudes == {NaN, -3000, 0, 3000, 9000, 12000}
ArgSideAzimuths == {NaN, 0, 9000}
ArgSurfaceAltitudes == {NaN, 0, 9000}

InitArguments ==
    /\ sunPosition \in [azimuth : ArgAzimuths, altitude : ArgAltitudes]
    /\ surface \in [sideAzimuth : ArgSideAzimuths, surfaceAltitude : ArgSurfaceAltitudes]
    /\ out = NoResult
    /\ prev = NoResult
    /\ IdleSampler
    /\ IdleApp
    /\ IdleFrames
    /\ IdleDisplay

SpecArguments == InitArguments /\ [][NextIntensity]_vars

----------------------------------------------------------------------------
(* Date: instants are milliseconds since the epoch; the local time of an   *)
(* instant is the instant plus the zone's offset.  A zone has the offset   *)
(* `before` up to the instant `at` and `after` from it on (a zone without  *)
(* a transition has before = after).                                       *)

MinuteMs == 60 * 1000
HourMs == 60 * MinuteMs
DayMs == 24 * HourMs

MaxDay == 2

FixedZone(offset) == [before |-> offset, after |-> offset, at |-> 0]

\* the transitions fall on local day 1
Zones ==
    { FixedZone(0), FixedZone(2 * HourMs), FixedZone(-5 * HourMs),
      [before |-> HourMs, after |-> 2 * HourMs, at |-> DayMs + HourMs],           \* 02:00 -> 03:00
      [before |-> 2 * HourMs, after |-> HourMs, at |-> DayMs + HourMs],           \* 03:00 -> 02:00
      [before |-> -5 * HourMs, after |-> -4 * HourMs, at |-> DayMs + 7 * HourMs] } \* 02:00 -> 03:00

LocalTime(z, t) == t + (IF t >= z.at THEN z.after ELSE z.before)

\* the instant of a local time; a local time that is skipped or repeated is
\* read with the offset before the transition
UTC(z, tlocal) ==
    IF tlocal - z.before < z.at THEN tlocal - z.before
    ELSE IF tlocal - z.after >= z.at THEN tlocal - z.after
    ELSE tlocal - z.before

\* new Date("YYYY-MM-DD"): the day's midnight UTC
ParseDate(day) == day * DayMs

LocalDay(z, t) == LocalTime(z, t) \div DayMs
TimeOfDay(z, t) == LocalTime(z, t) % DayMs
InvalidDate == -1

\* the fields of an invalid date are NaN
getHours(z, t) == IF t = InvalidDate THEN NaN ELSE TimeOfDay(z, t) \div HourMs
getMinutes(z, t) == IF t = InvalidDate THEN NaN ELSE (LocalTime(z, t) % HourMs) \div MinuteMs

\* toTimeString().slice(0, 5): <<hours, minutes>> for HH:MM
toTimeLabel(z, t) == IF t = InvalidDate THEN "Inval" ELSE <<getHours(z, t), getMinutes(z, t)>>

\* a field that is NaN makes the date invalid
setHours(z, t, h, m, sec, ms) ==
    IF t = InvalidDate \/ isNaN(h) \/ isNaN(m) THEN InvalidDate
    ELSE UTC(z, LocalDay(z, t) * DayMs + h * HourMs + m * MinuteMs + sec * 1000 + ms)

setMinutes(z, t, m) ==
    UTC(z, LocalTime(z, t) - getMinutes(z, t) * MinuteMs + m * MinuteMs)

----------------------------------------------------------------------------
(* SunCalc, the sun-position provider                                      *)

NoTimes == [set |-> FALSE]

\* getTimes: the sunrise and the sunset around the solar noon nearest to the
\* instant passed (four minutes of time to a degree of longitude, as for
\* the position).  Sunrise and sunset are invalid dates where the sun
\* neither rises nor sets (beyond the polar circles) and where the place is
\* not a number.
ProviderTimes(selectedDate, la, lo) ==
    IF isNaN(la) \/ isNaN(lo) \/ Abs(la) > 66
    THEN [sunrise |-> InvalidDate, sunset |-> InvalidDate, solarNoon |-> InvalidDate]
    ELSE LET solarDay == (selectedDate + lo * 4 * MinuteMs) \div DayMs
             solarNoon == solarDay * DayMs + 12 * HourMs - lo * 4 * MinuteMs
             halfDay == IF la >= 0 THEN 6 * HourMs ELSE 3 * HourMs
         IN  [sunrise |-> solarNoon - halfDay, sunset |-> solarNoon + halfDay,
              solarNoon |-> solarNoon]

\* getPosition: a function of the instant and the place
ProviderPosition(t, la, lo) ==
    IF isNaN(la) \/ isNaN(lo) \/ t = InvalidDate THEN [azimuth |-> NaN, altitude |-> NaN, declination |-> NaN]
    ELSE LET slot == ((t + lo * 4 * MinuteMs) % DayMs) \div (3 * HourMs)
         IN  [azimuth |-> 4500 * slot,
              altitude |-> IF slot \in {0, 1, 6, 7} THEN -3000
                           ELSE IF slot \in {2, 5} THEN 1500
                           ELSE IF la >= 0 THEN 6000 ELSE 3000,
              declination |-> 0]

\* the provider's calls, as the log records them
Query(fn, t, la, lo) == [fn |-> fn, time |-> t, lat |-> la, lon |-> lo]

----------------------------------------------------------------------------
(* SunlightTimer: computeSunPositionData                                   *)

MaxInterval == 50

Intervals == {10, 15} \cup 45..MaxInterval

\* a mutant: the time of day of the parsed date is kept
StartOfDay_NoReset(z, day) == ParseDate(day)

\* a mutant: the day is read from the wall clock
StartOfDay_Today(z, day) == setHours(z, now, 0, 0, 0, 0)

StartOfDay(z, day) == setHours(z, ParseDate(day), 0, 0, 0, 0)

\* a mutant: the day ends at the next midnight
EndOfDay_NextMidnight(z, selectedDate) == setHours(z, selectedDate, 24, 0, 0, 0)

EndOfDay(z, selectedDate) == setHours(z, selectedDate, 23, 59, 59, 999)

\* a mutant: the minutes are set to the interval, not advanced by it
NextInstant_SetNotAdd(z, t, interval) == setMinutes(z, t, interval)

NextInstant(z, t, interval) == setMinutes(z, t, getMinutes(z, t) + interval)

\* a mutant: a sunrise or sunset that is no date is replaced by the epoch
StoredTimes_Defaulted(times) ==
    [set |-> TRUE,
     sunrise |-> IF times.sunrise = InvalidDate THEN 0 ELSE times.sunrise,
     sunset |-> IF times.sunset = InvalidDate THEN 0 ELSE times.sunset]

\* setSunTimes({ sunrise: times.sunrise, sunset: times.sunset })
StoredTimes(times) ==
    [set |-> TRUE, sunrise |-> times.sunrise, sunset |-> times.sunset]

\* { time: new Date(d), position: { azimuth, altitude } }
Sample(t, position) ==
    [time |-> t, position |-> [azimuth |-> position.azimuth, altitude |-> position.altitude]]

\* at most n turns of the for loop from the instant t:
\* <<the instant reached, the samples pushed so far>>
RECURSIVE Turns(_, _, _, _, _, _, _, _)
Turns(z, t, last, la, lo, interval, acc, n) ==
    IF n = 0 \/ t > last THEN <<t, acc>>
    ELSE Turns(z, NextInstant(z, t, interval), last, la, lo, interval,
               Append(acc, Sample(t, ProviderPosition(t, la, lo))), n - 1)

\* the for loop, from the instant t to the instant last (evaluated sixteen
\* turns at a time, which keeps the evaluation shallow)
RECURSIVE Loop(_, _, _, _, _, _, _)
Loop(z, t, last, la, lo, interval, acc) ==
    IF t <= last
    THEN LET reached == Turns(z, t, last, la, lo, interval, acc, 16)
         IN  Loop(z, reached[1], last, la, lo, interval, reached[2])
    ELSE acc

\* one call of computeSunPositionData as a whole: what it hands to setSunTimes
\* and to setSunPositionData
computeSunPositionData(z, day, la, lo, interval) ==
    LET selectedDate == StartOfDay(z, day)
    IN  [sunTimes |-> StoredTimes(ProviderTimes(selectedDate, la, lo)),
         sunPositionData |-> Loop(z, selectedDate, EndOfDay(z, selectedDate),
                                  la, lo, interval, <<>>)]

InitSampler ==
    /\ zone \in Zones
    /\ lat \in {45, -33, 80}
    /\ lon = 9
    /\ date \in 1..MaxDay
    /\ intervalMinutes \in Intervals
    /\ pc = "idle" /\ d = 0 /\ end = 0
    /\ sunPositions = <<>> /\ sunPositionData = <<>>
    /\ sunTimes = NoTimes
    /\ queries = <<>>
    /\ sunPosition = [azimuth |-> 0, altitude |-> 0]
    /\ surface = [sideAzimuth |-> 0, surfaceAltitude |-> 0]
    /\ out = NoResult /\ prev = NoResult
    /\ IdleApp
    /\ IdleFrames
    /\ IdleDisplay

\* selectedDate, start, end, SunCalc.getTimes and setSunTimes
Begin ==
    /\ pc = "idle"
    /\ LET selectedDate == StartOfDay(zone, date)
       IN  /\ d' = selectedDate
           /\ end' = EndOfDay(zone, selectedDate)
           /\ sunTimes' = StoredTimes(ProviderTimes(selectedDate, lat, lon))
           /\ queries' = <<Query("getTimes", selectedDate, lat, lon)>>
    /\ sunPositions' = <<>>
    /\ pc' = "loop"
    /\ UNCHANGED <<zone, lat, lon, date, intervalMinutes, sunPositionData, ivars, avars, fvars, dvars>>

\* one turn of the for loop
LoopStep ==
    /\ pc = "loop"
    /\ d <= end
    /\ sunPositions' = Append(sunPositions, Sample(d, ProviderPosition(d, lat, lon)))
    /\ queries' = Append(queries, Query("getPosition", d, lat, lon))
    /\ d' = NextInstant(zone, d, intervalMinutes)
    /\ UNCHANGED <<zone, lat, lon, date, intervalMinutes, pc, end, sunPositionData,
                   sunTimes, ivars, avars, fvars, dvars>>

\* the loop ends: setSunPositionData(sunPositions)
LoopExit ==
    /\ pc = "loop"
    /\ d > end
    /\ sunPositionData' = sunPositions
    /\ pc' = "done"
    /\ UNCHANGED <<zone, lat, lon, date, intervalMinutes, d, end, sunPositions,
                   sunTimes, queries, ivars, avars, fvars, dvars>>

NextSampler == Begin \/ LoopStep \/ LoopExit

SpecSampler == InitSampler /\ [][NextSampler]_vars

----------------------------------------------------------------------------
(* Strings are sequences of characters.  parseFloat and String are those   *)
(* of JavaScript on the decimal numerals without fraction or exponent;     *)
(* the numbers of SunlightTimer (lat, lon, azm) are integers in degrees.   *)

DigitValue ==
       ("0" :> 0) @@ ("1" :> 1) @@ ("2" :> 2) @@ ("3" :> 3) @@ ("4" :> 4)
    @@ ("5" :> 5) @@ ("6" :> 6) @@ ("7" :> 7) @@ ("8" :> 8) @@ ("9" :> 9)

DigitChar == <<"0", "1", "2", "3", "4", "5", "6", "7", "8", "9">>

\* leading white space is skipped
RECURSIVE TrimStart(_)
TrimStart(s) == IF s # <<>> /\ Head(s) = " " THEN TrimStart(Tail(s)) ELSE s

\* <<the value of the longest prefix of digits, its length>>
RECURSIVE DigitsPrefix(_, _, _)
DigitsPrefix(s, value, count) ==
    IF s # <<>> /\ Head(s) \in DOMAIN DigitValue
    THEN DigitsPrefix(Tail(s), 10 * value + DigitValue[Head(s)], count + 1)
    ELSE <<value, count>>

\* the number of the longest prefix that is a numeral, NaN if there is none
parseFloat(s) ==
    LET t == TrimStart(s)
        signed == t # <<>> /\ Head(t) \in {"+", "-"}
        r == DigitsPrefix(IF signed THEN Tail(t) ELSE t, 0, 0)
    IN  IF r[2] = 0 THEN NaN
        ELSE IF signed /\ Head(t) = "-" THEN -r[1]
        ELSE r[1]

RECURSIVE Decimal(_)
Decimal(n) ==
    IF n < 10 THEN <<DigitChar[n + 1]>>
    ELSE Append(Decimal(n \div 10), DigitChar[(n % 10) + 1])

String(value) ==
    IF isNaN(value) THEN <<"N", "a", "N">>
    ELSE IF value < 0 THEN <<"-">> \o Decimal(-value)
    ELSE Decimal(value)

\* what is no string: an absent query parameter, an unset variable of the build
null == <<"null">>
undefined == <<"u", "n", "d", "e", "f", "i", "n", "e", "d">>

----------------------------------------------------------------------------
(* SunlightTimer: the query string, the initial state, the effects         *)

\* the query string is a function from the names of its parameters to their values
getQueryParam(search, name) == IF name \in DOMAIN search THEN search[name] ELSE null

\* a mutant: the rotation is not written
updateQueryParams_LatLon(search, params) ==
    [name \in DOMAIN search \cup (DOMAIN params \ {"azm"}) |->
        IF name \in DOMAIN params \ {"azm"} THEN String(params[name]) ELSE search[name]]

\* every value of params is a number, so that each is set and none deleted
updateQueryParams(search, params) ==
    [name \in DOMAIN search \cup DOMAIN params |->
        IF name \in DOMAIN params THEN String(params[name]) ELSE search[name]]

\* a mutant: only NaN is refused
Valid_AnyNumber(value, low, high) == ~isNaN(value)

\* !Number.isNaN(value) && value >= low && value <= high
Valid(value, low, high) == ~isNaN(value) /\ value >= low /\ value <= high

\* a mutant: a query value that is refused is clamped into the range
getInitial_Clamped(search, name, low, high, default) ==
    LET query == getQueryParam(search, name)
    IN  IF query # null /\ ~isNaN(parseFloat(query))
        THEN Max(low, Min(high, parseFloat(query)))
        ELSE parseFloat(default)

getInitial(search, name, low, high, default) ==
    LET query == getQueryParam(search, name)
    IN  IF query # null /\ Valid(parseFloat(query), low, high) THEN parseFloat(query)
        ELSE parseFloat(default)

getInitialLat(search, environment) ==
    getInitial(search, "lat", -90, 90, environment.PUBLIC_DEFAULT_LAT)
getInitialLon(search, environment) ==
    getInitial(search, "lon", -180, 180, environment.PUBLIC_DEFAULT_LON)
getInitialAzm(search, environment) ==
    getInitial(search, "azm", -45, 45, environment.PUBLIC_DEFAULT_AZM)

\* new Date().toISOString().split('T')[0]: the day of the instant in UTC
toISODate(t) == t \div DayMs

urlDeps(la, lo, az, day) == <<la, lo, az>>

\* a mutant: the sampler is run again when the date changes only
computeDeps_DateOnly(la, lo, az, day) == <<day>>

\* a mutant: the sampler is run again when the rotation changes, too
computeDeps_WithAzm(la, lo, az, day) == <<day, la, lo, az>>

\* the dependencies of computeSunPositionData, which the effect running it depends on
computeDeps(la, lo, az, day) == <<day, la, lo>>

\* the effects a render with the new state schedules, in the order of their declaration
Scheduled(la, lo, az, day) ==
    (IF urlDeps(la, lo, az, day) # urlDeps(lat, lon, azm, date) THEN <<"url">> ELSE <<>>)
    \o (IF computeDeps(la, lo, az, day) # computeDeps(lat, lon, azm, date)
        THEN <<"compute">> ELSE <<>>)

----------------------------------------------------------------------------
(* SunIntensityChart and its bars                                          *)

\* (degrees * Math.PI) / 180, an angle of the model being in hundredths of a degree
Radians(degrees) == IF isNaN(degrees) THEN NaN ELSE degrees * 100

\* a mutant: the walls turn against the rotation
wallAzimuth_Mirrored(degrees, az) == Radians(Add(degrees, Neg(az)))

wallAzimuth(degrees, az) == Radians(Add(degrees, az))

\* the bars of the chart, from top to bottom
SunIntensityChart(az) ==
    << [label |-> "East", sideAzimuth |-> wallAzimuth(270, az), surfaceAltitude |-> 0],
       [label |-> "South", sideAzimuth |-> wallAzimuth(0, az), surfaceAltitude |-> 0],
       [label |-> "West", sideAzimuth |-> wallAzimuth(90, az), surfaceAltitude |-> 0],
       [label |-> "North", sideAzimuth |-> wallAzimuth(180, az), surfaceAltitude |-> 0],
       [label |-> "Roof", sideAzimuth |-> 0, surfaceAltitude |-> 9000] >>

\* the segment of a bar at the sample i (the index of the source is i - 1);
\* left and width are fractions <<numerator, denominator>> of the bar's width
SunIntensityBar(bar, samples, i) ==
    [label |-> bar.label,
     key |-> samples[i].time,
     left |-> <<i - 1, Len(samples)>>,
     width |-> <<1, Len(samples)>>,
     sideAzimuth |-> bar.sideAzimuth,
     surfaceAltitude |-> bar.surfaceAltitude,
     intensity |-> calculateIntensity(samples[i].position, bar.sideAzimuth,
                                      bar.surfaceAltitude)]

\* the chart at the sample i: the segment of each bar
Column(samples, az, i) ==
    [index |-> i,
     position |-> samples[i].position,
     bars |-> [b \in DOMAIN SunIntensityChart(az) |->
                  SunIntensityBar(SunIntensityChart(az)[b], samples, i)]]

----------------------------------------------------------------------------
(* SunIntensityAxis: the ticks and labels of the time axis.  A position is *)
(* a fraction <<numerator, denominator>> of the axis' width, which is NaN  *)
(* if its numerator is.                                                    *)

\* date.getHours() * 60 + date.getMinutes()
MinuteOfDay(z, t) ==
    IF isNaN(getHours(z, t)) THEN NaN ELSE getHours(z, t) * 60 + getMinutes(z, t)

getSpecialTicks(z, times) ==
    IF ~times.set THEN <<>>
    ELSE << [key |-> "sunrise", minutes |-> MinuteOfDay(z, times.sunrise),
             label |-> toTimeLabel(z, times.sunrise)],
            [key |-> "sunset", minutes |-> MinuteOfDay(z, times.sunset),
             label |-> toTimeLabel(z, times.sunset)] >>

\* a mutant: no tick gives way to a special tick
isSpecialTick_Never(specialTicks, minutes) == FALSE

\* specialTicks.find((t) => Math.abs(t.minutes - minutes) < 1)
isSpecialTick(specialTicks, minutes) ==
    \E t \in DOMAIN specialTicks :
        /\ ~isNaN(specialTicks[t].minutes)
        /\ Abs(specialTicks[t].minutes - minutes) < 1

\* what the axis renders: the 97 ticks of the quarters of an hour (those not
\* drawn are null), the special ticks with their labels, the four hour labels
SunIntensityAxis(z, times) ==
    LET specialTicks == getSpecialTicks(z, times)
    IN  [ticks |-> [i \in 0..96 |->
                      IF isSpecialTick(specialTicks, i * 15) THEN [drawn |-> FALSE]
                      ELSE [drawn |-> TRUE,
                            key |-> i * 15,
                            left |-> <<i * 15, 24 * 60>>,
                            hour |-> (i * 15) % 60 = 0]],
         special |-> [t \in DOMAIN specialTicks |->
                        [key |-> specialTicks[t].key,
                         left |-> <<specialTicks[t].minutes, 24 * 60>>,
                         label |-> specialTicks[t].label]],
         labels |-> [i \in 0..3 |->
                       [left |-> <<i * 6, 24>>, label |-> <<i * 6, 0>>]]]

\* the chart's elements: the axis and the five rows of segments
Chart(z, times, samples, az) ==
    [rendered |-> TRUE,
     axis |-> SunIntensityAxis(z, times),
     rows |-> [b \in DOMAIN SunIntensityChart(az) |->
                 [i \in DOMAIN samples |->
                     SunIntensityBar(SunIntensityChart(az)[b], samples, i)]]]

----------------------------------------------------------------------------
(* SunIntensityChartHover: handleMouseMove and handleMouseLeave.  x is      *)
(* event.clientX - rect.left and width is rect.width, in pixels; the index *)
(* of the source, (x / width) * (length - 1), is the fraction num / width. *)

\* a mutant: the index is not clamped
clampedIndex_Unclamped(num, width, length) == num

\* Math.max(0, Math.min(length - 1, timeIndex)), as a numerator over width
clampedIndex(num, width, length) == Max(0, Min((length - 1) * width, num))

\* the indices read, whether the read of an element that is not there threw,
\* and the state handed to setHoverPosition
handleMouseMove(samples, x, width) ==
    LET length == Len(samples)
        num == clampedIndex(x * (length - 1), width, length)
        lowerIndex == num \div width
        upperIndex == Min(length - 1, -((-num) \div width))
        fraction == num - lowerIndex * width
        inside == {lowerIndex, upperIndex} \subseteq 0..(length - 1)
    IN  [lowerIndex |-> lowerIndex,
         upperIndex |-> upperIndex,
         threw |-> ~inside,
         hoverPosition |->
            IF ~inside THEN NoHover
            ELSE LET lowerTime == samples[lowerIndex + 1].time
                     upperTime == samples[upperIndex + 1].time
                 IN  [set |-> TRUE,
                      x |-> <<x, width>>,
                      time |-> lowerTime + (fraction * (upperTime - lowerTime)) \div width]]

----------------------------------------------------------------------------
(* SunlightTimer: mounting, the input events of LocationSettings, the      *)
(* effects and the rendering of the chart.  An input event is handled      *)
(* and the effects of its render are run before the next event.            *)

MaxEvents == 2
MaxRenders == 2

EventGap == 6 * HourMs

AppZones == { FixedZone(2 * HourMs),
              [before |-> HourMs, after |-> 2 * HourMs, at |-> DayMs + HourMs] }

\* the build with its defaults and the build without
Environments ==
    { [PUBLIC_DEFAULT_LAT |-> <<"4", "5">>, PUBLIC_DEFAULT_LON |-> <<"9">>,
       PUBLIC_DEFAULT_AZM |-> <<"0">>],
      [PUBLIC_DEFAULT_LAT |-> undefined, PUBLIC_DEFAULT_LON |-> undefined,
       PUBLIC_DEFAULT_AZM |-> undefined] }

\* window.location.search when the page is loaded
Searches ==
    { <<>>,
      [lat |-> <<"-", "3", "3">>, lon |-> <<"9">>, azm |-> <<"4", "5">>],
      [lat |-> <<"9", "1">>, lon |-> <<"-", "1", "8", "1">>, azm |-> <<"a", "b", "c">>],
      [lat |-> <<" ", "4", "5", "x">>, azm |-> <<>>, date |-> <<"2">>] }

\* e.target.value of the three number fields
LatInputs == { <<"4", "5">>, <<"-", "3", "3">>, <<"9", "1">>, <<>> }
LonInputs == { <<"9">>, <<"-", "1", "8", "1">>, <<"-">> }
AzmInputs == { <<"-", "4", "5">>, <<"4", "6">>, <<>> }

\* the samples the chart is rendered at: 09:00 and 12:00 on a day of 96 samples
HoverIndices == {37, 49}

NoEvent == [field |-> "none"]

InitApp ==
    /\ zone \in AppZones
    /\ now = DayMs + 12 * HourMs
    /\ env \in Environments
    /\ url \in Searches
    /\ lat = getInitialLat(url, env)
    /\ lon = getInitialLon(url, env)
    /\ azm = getInitialAzm(url, env)
    /\ date = toISODate(now)
    /\ intervalMinutes = 15
    /\ sunPositionData = <<>>
    /\ sunTimes = NoTimes
    /\ effects = <<"url", "compute">>
    /\ rendered = <<>>
    /\ event = NoEvent /\ events = 0 /\ runs = <<>>
    /\ pc = "idle" /\ d = 0 /\ end = 0 /\ sunPositions = <<>> /\ queries = <<>>
    /\ sunPosition = [azimuth |-> 0, altitude |-> 0]
    /\ surface = [sideAzimuth |-> 0, surfaceAltitude |-> 0]
    /\ out = NoResult /\ prev = NoResult
    /\ IdleFrames
    /\ IdleDisplay

\* useEffect(() => updateQueryParams({ lat, lon, azm }), [lat, lon, azm])
UrlEffect ==
    /\ effects # <<>> /\ Head(effects) = "url"
    /\ url' = updateQueryParams(url, [lat |-> lat, lon |-> lon, azm |-> azm])
    /\ effects' = Tail(effects)
    /\ UNCHANGED <<now, env, azm, rendered, event, events, runs, ivars, svars, fvars, dvars>>

\* useEffect(() => computeSunPositionData(), [computeSunPositionData])
ComputeEffect ==
    /\ effects # <<>> /\ Head(effects) = "compute"
    /\ LET result == computeSunPositionData(zone, date, lat, lon, intervalMinutes)
       IN  /\ sunTimes' = result.sunTimes
           /\ sunPositionData' = result.sunPositionData
           /\ runs' = Append(runs, [at |-> now, date |-> date, lat |-> lat, lon |-> lon,
                                    sunTimes |-> result.sunTimes,
                                    sunPositionData |-> result.sunPositionData])
    /\ effects' = Tail(effects)
    /\ UNCHANGED <<zone, lat, lon, date, intervalMinutes, pc, d, end, sunPositions, queries,
                   now, env, url, azm, rendered, event, events, ivars, fvars, dvars>>

\* setLat, setLon, setAzm or setDate: a state that differs is rendered, and
\* the render schedules the effects whose dependencies differ
setState(la, lo, az, day) ==
    /\ lat' = la /\ lon' = lo /\ azm' = az /\ date' = day
    /\ effects' = Scheduled(la, lo, az, day)
    /\ rendered' = IF <<la, lo, az, day>> = <<lat, lon, azm, date>> THEN rendered ELSE <<>>

\* an input event happens when the effects have run, some time after the last
InputEvent(field, raw) ==
    /\ effects = <<>>
    /\ events < MaxEvents
    /\ event' = [field |-> field, value |-> raw]
    /\ events' = events + 1
    /\ now' = now + EventGap
    /\ UNCHANGED <<zone, intervalMinutes, pc, d, end, sunPositions, sunPositionData,
                   sunTimes, queries, env, url, runs, ivars, fvars, dvars>>

\* onChange of the latitude field
LatChange ==
    \E raw \in LatInputs :
        /\ InputEvent("lat", raw)
        /\ IF Valid(parseFloat(raw), -90, 90) THEN setState(parseFloat(raw), lon, azm, date)
           ELSE UNCHANGED <<lat, lon, azm, date, effects, rendered>>

\* onChange of the longitude field
LonChange ==
    \E raw \in LonInputs :
        /\ InputEvent("lon", raw)
        /\ IF Valid(parseFloat(raw), -180, 180) THEN setState(lat, parseFloat(raw), azm, date)
           ELSE UNCHANGED <<lat, lon, azm, date, effects, rendered>>

\* onChange of the azimuth field
AzmChange ==
    \E raw \in AzmInputs :
        /\ InputEvent("azm", raw)
        /\ IF Valid(parseFloat(raw), -45, 45) THEN setState(lat, lon, parseFloat(raw), date)
           ELSE UNCHANGED <<lat, lon, azm, date, effects, rendered>>

\* onChange of the date field
DateChange ==
    \E day \in 1..MaxDay :
        /\ InputEvent("date", day)
        /\ setState(lat, lon, azm, day)

\* the chart, which is there when there are samples, at one of them
Render ==
    /\ effects = <<>>
    /\ Len(sunPositionData) # 0
    /\ Len(rendered) < MaxRenders
    /\ \E i \in HoverIndices :
          /\ i <= Len(sunPositionData)
          /\ rendered' = Append(rendered, Column(sunPositionData, azm, i))
    /\ UNCHANGED <<now, env, url, azm, effects, event, events, runs, ivars, svars, fvars, dvars>>

NextApp == UrlEffect \/ ComputeEffect \/ LatChange \/ LonChange \/ AzmChange \/ DateChange
           \/ Render

SpecApp == InitApp /\ [][NextApp]_vars

----------------------------------------------------------------------------
(* computeSunPositionData, two invocations at a time: each invocation has   *)
(* its own selectedDate, end, d and sunPositions; setSunTimes and           *)
(* setSunPositionData write the state of the component.                    *)

\* the (date, lat, lon) an invocation closes over
FrameInputs ==
    { [date |-> 1, lat |-> 80, lon |-> -9],
      [date |-> 2, lat |-> -33, lon |-> 9] }

\* the invocations in the order of their inputs, the two being different
FramePairs ==
    { pair \in FrameInputs \X FrameInputs :
        \/ pair[1].date < pair[2].date
        \/ pair[1].date = pair[2].date /\ pair[1].lat < pair[2].lat }

Frame(input) ==
    [input |-> input, pc |-> "idle", d |-> 0, end |-> 0, sunPositions |-> <<>>,
     times |-> NoTimes, data |-> <<>>]

\* a mutant: one list of samples for all invocations
frameSamples_Shared(frs, f) == frs[1].sunPositions

\* const sunPositions: SunPositionData[] = [], a local of the invocation
frameSamples(frs, f) == frs[f].sunPositions

InitInterleaved ==
    /\ zone = [before |-> HourMs, after |-> 2 * HourMs, at |-> DayMs + HourMs]
    /\ intervalMinutes = 15
    /\ \E pair \in FramePairs : frames = <<Frame(pair[1]), Frame(pair[2])>>
    /\ lat = 0 /\ lon = 0 /\ date = 0
    /\ pc = "idle" /\ d = 0 /\ end = 0
    /\ sunPositions = <<>> /\ sunPositionData = <<>>
    /\ sunTimes = NoTimes
    /\ queries = <<>>
    /\ sunPosition = [azimuth |-> 0, altitude |-> 0]
    /\ surface = [sideAzimuth |-> 0, surfaceAltitude |-> 0]
    /\ out = NoResult /\ prev = NoResult
    /\ IdleApp
    /\ IdleDisplay

\* selectedDate, start, end, SunCalc.getTimes and setSunTimes
FrameBegin ==
    \E f \in DOMAIN frames :
        /\ frames[f].pc = "idle"
        /\ LET input == frames[f].input
               selectedDate == StartOfDay(zone, input.date)
               times == StoredTimes(ProviderTimes(selectedDate, input.lat, input.lon))
           IN  /\ frames' = [frames EXCEPT ![f].d = selectedDate,
                                           ![f].end = EndOfDay(zone, selectedDate),
                                           ![f].times = times,
                                           ![f].sunPositions = <<>>,
                                           ![f].pc = "loop"]
               /\ sunTimes' = times
        /\ UNCHANGED <<zone, lat, lon, date, intervalMinutes, pc, d, end, sunPositions,
                       sunPositionData, queries, ivars, avars, dvars>>

\* one turn of the for loop
FrameStep ==
    \E f \in DOMAIN frames :
        /\ frames[f].pc = "loop"
        /\ frames[f].d <= frames[f].end
        /\ LET input == frames[f].input
               t == frames[f].d
               sample == Sample(t, ProviderPosition(t, input.lat, input.lon))
           IN  frames' = [frames EXCEPT
                             ![f].sunPositions = Append(frameSamples(frames, f), sample),
                             ![f].d = NextInstant(zone, t, intervalMinutes)]
        /\ UNCHANGED <<svars, ivars, avars, dvars>>

\* the end of the loop and setSunPositionData
FrameReturn ==
    \E f \in DOMAIN frames :
        /\ frames[f].pc = "loop"
        /\ frames[f].d > frames[f].end
        /\ frames' = [frames EXCEPT ![f].data = frameSamples(frames, f), ![f].pc = "done"]
        /\ sunPositionData' = frameSamples(frames, f)
        /\ UNCHANGED <<zone, lat, lon, date, intervalMinutes, pc, d, end, sunPositions,
                       sunTimes, queries, ivars, avars, dvars>>

NextInterleaved == FrameBegin \/ FrameStep \/ FrameReturn

SpecInterleaved == InitInterleaved /\ [][NextInterleaved]_vars

----------------------------------------------------------------------------
(* SunIntensityChart with the samples and the sunrise and sunset of a day: *)
(* its rendering and the pointer over it                                   *)

ChartPlaces ==
    { [lat |-> 45, lon |-> 0], [lat |-> 45, lon |-> 9],
      [lat |-> -33, lon |-> 9], [lat |-> 80, lon |-> 9] }

\* rect.width, and event.clientX - rect.left: left of the chart, on its
\* edges, inside, right of it
ChartWidths == {96, 300}
PointerXs(width) == {-7, 0, 1, width \div 2, width - 1, width, width + 7}

InitChart ==
    /\ zone \in AppZones
    /\ date \in 1..MaxDay
    /\ \E place \in ChartPlaces : lat = place.lat /\ lon = place.lon
    /\ intervalMinutes = 15
    /\ sunTimes = computeSunPositionData(zone, date, lat, lon, intervalMinutes).sunTimes
    /\ sunPositionData =
          computeSunPositionData(zone, date, lat, lon, intervalMinutes).sunPositionData
    /\ pc = "idle" /\ d = 0 /\ end = 0 /\ sunPositions = <<>> /\ queries = <<>>
    /\ sunPosition = [azimuth |-> 0, altitude |-> 0]
    /\ surface = [sideAzimuth |-> 0, surfaceAltitude |-> 0]
    /\ out = NoResult /\ prev = NoResult
    /\ IdleApp
    /\ IdleFrames
    /\ IdleDisplay

\* the chart is rendered if there are samples
RenderChart ==
    /\ ~dom.rendered
    /\ Len(sunPositionData) # 0
    /\ dom' = Chart(zone, sunTimes, sunPositionData, azm)
    /\ UNCHANGED <<hoverPosition, rays, ivars, svars, avars, fvars>>

\* onMouseMove of the hover layer
MouseMove ==
    /\ dom.rendered
    /\ \E width \in ChartWidths : \E x \in PointerXs(width) :
          LET moved == handleMouseMove(sunPositionData, x, width)
          IN  /\ hoverPosition' = IF moved.threw THEN hoverPosition ELSE moved.hoverPosition
              /\ event' = [field |-> "mousemove", x |-> x, width |-> width,
                           lowerIndex |-> moved.lowerIndex,
                           upperIndex |-> moved.upperIndex]
    /\ UNCHANGED <<dom, rays, ivars, svars, fvars,
                   now, env, url, azm, effects, rendered, events, runs>>

\* onMouseLeave of the hover layer
MouseLeave ==
    /\ dom.rendered
    /\ hoverPosition' = NoHover
    /\ event' = [field |-> "mouseleave"]
    /\ UNCHANGED <<dom, rays, ivars, svars, fvars,
                   now, env, url, azm, effects, rendered, events, runs>>

NextChart == RenderChart \/ MouseMove \/ MouseLeave

SpecChart == InitChart /\ [][NextChart]_vars

----------------------------------------------------------------------------
(* SunRays, the rays of the map: one for every half hour of daylight and   *)
(* one each for sunrise and sunset.  A ray's end point is a function of    *)
(* the place, its azimuth and its length baseLength * altitudeFactor.      *)

RayPlaces ==
    { [lat |-> 45, lon |-> 9], [lat |-> -33, lon |-> 9],
      [lat |-> 80, lon |-> 9], [lat |-> 45, lon |-> -75] }

\* Math.floor(minute / 30) * 30 and Math.ceil(minute / 30) * 30
floorHalfHour(minute) == IF isNaN(minute) THEN NaN ELSE (minute \div 30) * 30
ceilHalfHour(minute) == IF isNaN(minute) THEN NaN ELSE ((minute + 29) \div 30) * 30

\* time <= endTime; no comparison with an invalid date holds
NotAfter(time, endTime) == time # InvalidDate /\ endTime # InvalidDate /\ time <= endTime

Ray(time, sunPos, baseLength, isSunrise) ==
    [start |-> <<lat, lon>>, time |-> time,
     altitude |-> sunPos.altitude, azimuth |-> sunPos.azimuth,
     baseLength |-> baseLength, altitudeFactor |-> Cos(sunPos.altitude),
     isSunrise |-> isSunrise = "sunrise", isSunset |-> isSunrise = "sunset"]

addSpecialRay(time, isSunrise) ==
    Ray(time, ProviderPosition(time, lat, lon), 180,
        IF isSunrise THEN "sunrise" ELSE "sunset")

InitRays ==
    /\ zone \in Zones
    /\ date \in 1..MaxDay
    /\ \E place \in RayPlaces : lat = place.lat /\ lon = place.lon
    /\ intervalMinutes = 30
    /\ pc = "idle" /\ d = 0 /\ end = 0
    /\ sunPositions = <<>> /\ sunPositionData = <<>>
    /\ sunTimes = NoTimes
    /\ queries = <<>>
    /\ sunPosition = [azimuth |-> 0, altitude |-> 0]
    /\ surface = [sideAzimuth |-> 0, surfaceAltitude |-> 0]
    /\ out = NoResult /\ prev = NoResult
    /\ IdleApp
    /\ IdleFrames
    /\ IdleDisplay

\* selectedDate, sunrise and sunset, startTime and endTime
RaysBegin ==
    /\ rays.pc = "idle"
    /\ LET selectedDate == ParseDate(date)
           times == ProviderTimes(selectedDate, lat, lon)
           startTime == setHours(zone, selectedDate, getHours(zone, times.sunrise),
                                 floorHalfHour(getMinutes(zone, times.sunrise)), 0, 0)
           endTime == setHours(zone, selectedDate, getHours(zone, times.sunset),
                               ceilHalfHour(getMinutes(zone, times.sunset)), 0, 0)
       IN  rays' = [pc |-> "loop", selectedDate |-> selectedDate,
                    sunrise |-> times.sunrise, sunset |-> times.sunset,
                    startTime |-> startTime, endTime |-> endTime,
                    time |-> startTime, candidates |-> <<>>, rays |-> <<>>]
    /\ UNCHANGED <<hoverPosition, dom, ivars, svars, avars, fvars>>

\* one turn of the for loop
RayStep ==
    /\ rays.pc = "loop"
    /\ NotAfter(rays.time, rays.endTime)
    /\ LET sunPos == ProviderPosition(rays.time, lat, lon)
       IN  rays' = [rays EXCEPT
                      !.candidates = Append(@, rays.time),
                      !.rays = IF LessEq(sunPos.altitude, 0) \/ isNaN(sunPos.altitude) THEN @
                               ELSE Append(@, Ray(rays.time, sunPos, 150, "regular")),
                      !.time = NextInstant(zone, rays.time, 30)]
    /\ UNCHANGED <<hoverPosition, dom, ivars, svars, avars, fvars>>

\* the loop ends: addSpecialRay(sunrise, true) and addSpecialRay(sunset, false)
RaysSpecial ==
    /\ rays.pc = "loop"
    /\ ~NotAfter(rays.time, rays.endTime)
    /\ rays' = [rays EXCEPT
                  !.pc = "done",
                  !.rays = @ \o <<addSpecialRay(rays.sunrise, TRUE),
                                  addSpecialRay(rays.sunset, FALSE)>>]
    /\ UNCHANGED <<hoverPosition, dom, ivars, svars, avars, fvars>>

NextRays == RaysBegin \/ RayStep \/ RaysSpecial

SpecRays == InitRays /\ [][NextRays]_vars

----------------------------------------------------------------------------
(* The irradiance model: claims                                            *)

Dot == dotProduct(sunDirection(sunPosition),
                  surfaceNormal(surface.sideAzimuth, surface.surfaceAltitude))

\* C1: with the sun at or below the horizon the air mass is Infinity, the
\* transmittance is 0 and the intensity is exactly 0, whatever the surface.
C1_HorizonInvariant ==
    (out.done /\ sunPosition.altitude <= 0) =>
        /\ out.airMass = Infinity
        /\ out.transmittance = 0
        /\ out.intensity = 0

\* the sun below the horizon and in front of the surface: only the
\* transmittance makes the intensity 0
C1_Witness ==
    /\ out.done
    /\ sunPosition.altitude < 0
    /\ out.geometric > 0
    /\ out.intensity = 0

\* C2: the intensity of every sun position on every surface lies in [0, 1].
C2_RangeInvariant ==
    out.done => (0 <= out.intensity /\ out.intensity <= Scale)

C2_Witness ==
    /\ out.done
    /\ Dot < 0
    /\ sunPosition.altitude > 0
    /\ out.intensity = 0
    /\ prev.done /\ prev.intensity > 0 /\ prev.intensity <= Scale

ClaimedDirection(azimuth, altitude) ==
    <<Mul(Sin(azimuth), Cos(altitude)), Mul(Cos(azimuth), Cos(altitude)), Sin(altitude)>>

ClaimedFormula(az, alt, sAz, tilt) ==
    LET dir == ClaimedDirection(az, alt)
        n == ClaimedDirection(sAz, tilt)
        dn == Mul(dir[1], n[1]) + Mul(dir[2], n[2]) + Mul(dir[3], n[3])
        AM == MulDiv(AMScale, Scale,
                     Sin(alt) + Mul(KastenYoungCoefficient, KastenYoungPower(alt)))
        excess == AM - AMScale
        decay == Sgn(excess) * MulDiv(Abs(excess), k, AMScale)
        tau == Mul(tau0, Exp(-decay))
    IN  Mul(Max(0, dn), Max(0, Min(Scale, tau)))

FacingSun ==
    /\ sunPosition = [azimuth |-> 18000, altitude |-> 4500]
    /\ surface = [sideAzimuth |-> 18000, surfaceAltitude |-> 0]

\* C3: above the horizon the intensity is max(0, d.n) times the clamped
\* transmittance of the Kasten-Young air mass; sun and wall both facing South
\* at altitude pi/4 give the geometric factor cos(pi/4).
C3_Formula ==
    (out.done /\ sunPosition.altitude > 0) =>
        /\ out.intensity = ClaimedFormula(sunPosition.azimuth, sunPosition.altitude,
                                          surface.sideAzimuth, surface.surfaceAltitude)
        /\ FacingSun => (out.geometric = Cos(4500) /\ out.intensity > 0)

C3_Witness ==
    /\ out.done
    /\ FacingSun
    /\ out.geometric = 353553391
    /\ out.intensity = Mul(353553391, out.transmittance)

Zenith ==
    /\ out.done
    /\ sunPosition.altitude = 9000
    /\ surface.surfaceAltitude = 9000

\* C4: sun at the zenith on the Roof: geometric factor 1, air mass 1,
\* transmittance tau0 = 0.8 and intensity 0.8.
C4_ZenithCase ==
    Zenith =>
        /\ out.geometric = Scale
        /\ out.airMass = AMScale
        /\ out.transmittance = tau0
        /\ out.intensity = tau0

\* C5: a sun direction with a non-positive dot product with the surface
\* normal gives intensity 0; the sun due South at pi/4 gives 0 on a wall
\* facing North.
C5_BehindSurface ==
    /\ (out.done /\ Dot <= 0) => out.intensity = 0
    /\ (/\ out.done
        /\ sunPosition = [azimuth |-> 18000, altitude |-> 4500]
        /\ surface = [sideAzimuth |-> 0, surfaceAltitude |-> 0]) => out.intensity = 0

\* the sun above the horizon, so that the transmittance is positive, and
\* behind the surface
C5_Witness ==
    /\ out.done
    /\ sunPosition = [azimuth |-> 18000, altitude |-> 4500]
    /\ surface = [sideAzimuth |-> 0, surfaceAltitude |-> 0]
    /\ Dot < 0
    /\ out.transmittance > 0
    /\ out.intensity = 0

\* C6: as the altitude decreases over (0, pi/2] the air mass strictly
\* increases and the transmittance strictly decreases.
C6_MonotonicAttenuation ==
    (prev.done /\ out.done /\ 0 < out.altitude /\ out.altitude < prev.altitude) =>
        /\ out.airMass > prev.airMass
        /\ out.transmittance < prev.transmittance

----------------------------------------------------------------------------
(* The sampler: claims                                                     *)

Ceil(a, b) == (a + b - 1) \div b

SampleTime(i) == sunPositionData[i].time
Last == Len(sunPositionData)

\* the local clock is changed during the local day the samples are taken on
TransitionDay ==
    /\ zone.before # zone.after
    /\ LocalDay(zone, zone.at) = LocalDay(zone, ParseDate(date))

\* C7: at 15 minutes on a day without a transition there are 96 samples,
\* the first at local 00:00:00.000 and the last at 23:45 of the same day.
C7_SamplerCoverage ==
    (pc = "done" /\ intervalMinutes = 15 /\ ~TransitionDay) =>
        /\ Last = 96
        /\ TimeOfDay(zone, SampleTime(1)) = 0
        /\ LocalDay(zone, SampleTime(Last)) = LocalDay(zone, SampleTime(1))
        /\ TimeOfDay(zone, SampleTime(Last)) = 23 * HourMs + 45 * MinuteMs

\* a zone that has transitions, on a day without one
C7_Witness ==
    /\ pc = "done"
    /\ intervalMinutes = 15
    /\ zone.before # zone.after
    /\ ~TransitionDay
    /\ Last = 96

\* the intervals the source's variants of the sampler use
ProgramIntervals == {10, 15}

\* C8: in every zone the samples of computeSunPositionData start at local
\* midnight of the day the date string names and all fall on that day.
C8_SameCalendarDay ==
    (pc = "done" /\ intervalMinutes \in ProgramIntervals) =>
        /\ TimeOfDay(zone, SampleTime(1)) = 0
        /\ \A i \in 1..Last : LocalDay(zone, SampleTime(i)) = date

ConstantStride(samples) ==
    /\ \A i \in 1..(Len(samples) - 1) :
          samples[i + 1].time - samples[i].time = intervalMinutes * MinuteMs
    /\ \A i \in 1..Len(samples) :
          /\ LocalDay(zone, samples[i].time) = LocalDay(zone, samples[1].time)
          /\ samples[i].time <= end
    /\ Len(samples) > 0 => TimeOfDay(zone, samples[1].time) = 0

----------------------------------------------------------------------------
(* Determinism, the provider, the effects: claims                          *)

SameInputs(r1, r2) == r1.date = r2.date /\ r1.lat = r2.lat /\ r1.lon = r2.lon

C12_ProviderQueries ==
    /\ pc = "loop" => Len(queries) = 1 + Len(sunPositions)
    /\ pc = "done" =>
          LET selectedDate == StartOfDay(zone, date)
              times == ProviderTimes(selectedDate, lat, lon)
          IN  /\ Len(queries) = 1 + Last
              /\ queries[1] = Query("getTimes", selectedDate, lat, lon)
              /\ sunTimes.sunrise = times.sunrise
              /\ sunTimes.sunset = times.sunset
              /\ \A i \in 1..Last :
                    LET position == ProviderPosition(SampleTime(i), lat, lon)
                    IN  /\ queries[i + 1] = Query("getPosition", SampleTime(i), lat, lon)
                        /\ sunPositionData[i].position.azimuth = position.azimuth
                        /\ sunPositionData[i].position.altitude = position.altitude
              /\ (times.sunrise = InvalidDate /\ ~TransitionDay) =>
                    /\ Last = Ceil(1440, intervalMinutes)
                    /\ TimeOfDay(zone, SampleTime(1)) = 0
                    /\ TimeOfDay(zone, SampleTime(Last)) + intervalMinutes * MinuteMs >= DayMs

\* beyond the polar circle: no sunrise, no sunset, 96 samples
C12_Witness ==
    /\ pc = "done"
    /\ lat = 80
    /\ sunTimes.sunrise = InvalidDate /\ sunTimes.sunset = InvalidDate
    /\ intervalMinutes = 15
    /\ Last = 96
    /\ Len(queries) = 97
    /\ \E i \in 1..Last : sunPositionData[i].position.altitude > 0

----------------------------------------------------------------------------
(* The surfaces of the chart: claims                                       *)

Walls(column) == {b \in DOMAIN column.bars : column.bars[b].label # "Roof"}
Roofs(column) == {b \in DOMAIN column.bars : column.bars[b].label = "Roof"}

\* C14: for every rotation azm the chart evaluates five surfaces: four walls
\* of tilt 0 whose azimuths are azm, azm + 90, azm + 180 and azm + 270
\* degrees, each once, and one Roof of tilt pi/2.
C14_FiveSurfaces ==
    ~isNaN(azm) =>
        \A c \in DOMAIN rendered :
            LET column == rendered[c]
            IN  /\ DOMAIN column.bars = 1..5
                /\ Cardinality(Walls(column)) = 4
                /\ \A b \in Walls(column) : column.bars[b].surfaceAltitude = 0
                /\ \A q \in 0..3 :
                      Cardinality({b \in Walls(column) :
                          column.bars[b].sideAzimuth = 100 * (azm + 90 * q)}) = 1
                /\ Cardinality(Roofs(column)) = 1
                /\ \A b \in Roofs(column) : column.bars[b].surfaceAltitude = 9000

\* the chart of a structure turned by -45 degrees, rendered at a sample
C14_Witness ==
    /\ azm = -45
    /\ Len(rendered) > 0
    /\ \E b \in Walls(rendered[1]) :
          /\ rendered[1].bars[b].label = "West"
          /\ rendered[1].bars[b].sideAzimuth = 4500
          /\ rendered[1].bars[b].intensity > 0
    /\ \E b \in Walls(rendered[1]) :
          /\ rendered[1].bars[b].label = "East"
          /\ rendered[1].bars[b].sideAzimuth = 22500

LabelledBar(label) ==
    CHOOSE bar \in {SunIntensityChart(0)[b] : b \in DOMAIN SunIntensityChart(0)} :
        bar.label = label

Evaluated(bar) ==
    /\ out.done
    /\ surface = [sideAzimuth |-> bar.sideAzimuth, surfaceAltitude |-> bar.surfaceAltitude]

\* C15: with azm = 0 and azimuths measured from North toward East, a sun due
\* South (azimuth pi) above the horizon gives the wall labelled South a
\* positive intensity and the wall labelled North the intensity 0.
C15_LabelledWalls ==
    (sunPosition.azimuth = 18000 /\ sunPosition.altitude > 0 /\ sunPosition.altitude < 9000) =>
        /\ Evaluated(LabelledBar("South")) => out.intensity > 0
        /\ Evaluated(LabelledBar("North")) => out.intensity = 0

----------------------------------------------------------------------------
(* The validation of the place and the rotation: claims                    *)

FieldRange == [lat |-> <<-90, 90>>, lon |-> <<-180, 180>>, azm |-> <<-45, 45>>]

Within(value, range) == ~isNaN(value) /\ value >= range[1] /\ value <= range[2]

\* C17: in every reachable state of SunlightTimer, whatever the query string
\* at load and whatever input events follow, lat is in [-90, 90], lon in
\* [-180, 180], azm in [-45, 45], and none of them is NaN.
C17_RangeInvariant ==
    /\ Within(lat, FieldRange.lat)
    /\ Within(lon, FieldRange.lon)
    /\ Within(azm, FieldRange.azm)

Rejected(e) ==
    /\ e.field \in DOMAIN FieldRange
    /\ ~Within(parseFloat(e.value), FieldRange[e.field])

\* C18: an input event of the latitude, longitude or azimuth field whose
\* value parses to NaN or lies outside the field's range changes nothing:
\* lat, lon, azm, the query string, the samples and sunrise and sunset stay,
\* no effect is scheduled and no computation runs.
C18_RejectedInput ==
    [][(events' = events + 1 /\ Rejected(event'))
          => UNCHANGED <<lat, lon, azm, url, sunPositionData, sunTimes, effects, runs>>]_vars

\* the latitude 91 typed into the field of a chart that shows latitude 45
C18_Witness ==
    /\ events = 1
    /\ event = [field |-> "lat", value |-> <<"9", "1">>]
    /\ Rejected(event)
    /\ lat = 45
    /\ Len(runs) = 1
    /\ effects = <<>>

----------------------------------------------------------------------------
(* The irradiance model on arbitrary arguments: claims                     *)

AnyNaN(args) == \E i \in DOMAIN args : isNaN(args[i])

Arguments == <<sunPosition.azimuth, sunPosition.altitude,
               surface.sideAzimuth, surface.surfaceAltitude>>

\* C19: calculateIntensity returns for all arguments and never divides by
\* zero: an altitude <= 0 gives the air mass Infinity before the power term
\* is evaluated, above the horizon the divisor is positive, and the result is
\* NaN exactly when one of azimuth, altitude, sideAzimuth, tilt is NaN.
C19_Total ==
    out.done =>
        /\ AnyNaN(Arguments) <=> isNaN(out.intensity)
        /\ out.intensity # Infinity
        /\ LessEq(sunPosition.altitude, 0) => out.airMass = Infinity
        /\ (~isNaN(sunPosition.altitude) /\ sunPosition.altitude > 0) =>
              /\ airMassDenominator(sunPosition.altitude) > 0
              /\ out.airMass = Reciprocal(airMassDenominator(sunPosition.altitude))
              /\ out.airMass # Infinity

\* a sun below the horizon whose azimuth is NaN: the transmittance is 0 and
\* the intensity NaN
C19_Witness ==
    /\ out.done
    /\ isNaN(sunPosition.azimuth)
    /\ sunPosition.altitude = -3000
    /\ ~isNaN(surface.sideAzimuth) /\ ~isNaN(surface.surfaceAltitude)
    /\ out.airMass = Infinity
    /\ out.transmittance = 0
    /\ isNaN(out.geometric)
    /\ isNaN(out.intensity)

----------------------------------------------------------------------------
(* Interleaved invocations: claims                                         *)

IsPrefix(s, t) == Len(s) <= Len(t) /\ \A i \in DOMAIN s : s[i] = t[i]

Alone(input) ==
    computeSunPositionData(zone, input.date, input.lat, input.lon, intervalMinutes)

\* what the invocation f has produced so far is what it produces alone
AsAlone(f) ==
    LET frame == frames[f]
        alone == Alone(frame.input)
    IN  /\ frame.pc # "idle" => frame.times = alone.sunTimes
        /\ frame.pc = "loop" => IsPrefix(frame.sunPositions, alone.sunPositionData)
        /\ frame.pc = "done" => frame.data = alone.sunPositionData

\* C20: two computations for different (date, lat, lon) interleaved step by
\* step each produce the samples and the sunrise and sunset they produce
\* alone, and no step changes the inputs of either.
C20_Isolated ==
    /\ [](\A f \in DOMAIN frames : AsAlone(f))
    /\ [][\A f \in DOMAIN frames : frames'[f].input = frames[f].input]_vars

\* both invocations are in their loops, the one that began first has fewer
\* samples than the other, and sunrise and sunset are those of the other
C20_Witness ==
    /\ Len(frames) = 2
    /\ frames[1].pc = "loop" /\ frames[2].pc = "loop"
    /\ Len(frames[1].sunPositions) = 3
    /\ Len(frames[2].sunPositions) = 40
    /\ frames[1].input # frames[2].input
    /\ sunTimes = frames[2].times
    /\ sunTimes # frames[1].times

----------------------------------------------------------------------------
(* The query string as a deep link: claims                                 *)

\* C21: once the effects have run, the query parameters lat, lon and azm are
\* the state, and a page loaded from that query string starts with the same
\* lat, lon and azm; the date is neither written to the query string nor
\* read from it.
C21_DeepLink ==
    /\ [](effects = <<>> =>
            /\ url.lat = String(lat) /\ url.lon = String(lon) /\ url.azm = String(azm)
            /\ getInitialLat(url, env) = lat
            /\ getInitialLon(url, env) = lon
            /\ getInitialAzm(url, env) = azm)
    /\ [](events = 0 => date = toISODate(now))
    /\ [][/\ getQueryParam(url', "date") = getQueryParam(url, "date")
          /\ date' # date => (event'.field = "date" /\ date' = event'.value)]_vars

\* the latitude -33 and the rotation -45 typed into a page that was loaded
\* with a latitude that is no number, no rotation and a date in its query string
C21_Witness ==
    /\ events = 2
    /\ effects = <<>>
    /\ lat = -33 /\ azm = -45
    /\ url.lat = <<"-", "3", "3">>
    /\ url.azm = <<"-", "4", "5">>
    /\ getQueryParam(url, "date") = <<"2">>
    /\ date = 1

----------------------------------------------------------------------------
(* The state at load, the rotation: claims                                 *)

Configured == [lat |-> parseFloat(env.PUBLIC_DEFAULT_LAT),
               lon |-> parseFloat(env.PUBLIC_DEFAULT_LON),
               azm |-> parseFloat(env.PUBLIC_DEFAULT_AZM)]

\* the value a field has at load, by the claim
AtLoad(search, name) ==
    IF /\ name \in DOMAIN search
       /\ Within(parseFloat(search[name]), FieldRange[name])
    THEN parseFloat(search[name])
    ELSE Configured[name]

\* C24: at load each of lat, lon and azm is its query parameter if that is
\* present, parses to a number and lies within the field's range, and the
\* configured default otherwise, each of the three by itself.  (Before the
\* first effect has run the query string is the one the page was loaded with.)
C24_InitialState ==
    (events = 0 /\ Len(effects) = 2) =>
        /\ lat = AtLoad(url, "lat")
        /\ lon = AtLoad(url, "lon")
        /\ azm = AtLoad(url, "azm")

\* a page loaded with a latitude that starts with a number, without a
\* longitude and with an empty rotation: the latitude is taken, the others
\* are the defaults
C24_Witness ==
    /\ events = 0 /\ Len(effects) = 2
    /\ DOMAIN url = {"lat", "azm", "date"}
    /\ url.lat = <<" ", "4", "5", "x">> /\ url.azm = <<>>
    /\ env.PUBLIC_DEFAULT_LON = <<"9">>
    /\ lat = 45 /\ lon = 9 /\ azm = 0

OppositeLit(pos, sideAzimuth) ==
    /\ calculateIntensity(pos, sideAzimuth, 0) > 0
    /\ calculateIntensity(pos, sideAzimuth + 18000, 0) > 0

\* the walls of the four that are lit, the first wall being at sideAzimuth
Lit(pos, sideAzimuth) ==
    {q \in 0..3 : calculateIntensity(pos, sideAzimuth + 9000 * q, 0) > 0}

----------------------------------------------------------------------------
(* The axis, the rows and the hover label of the chart: claims             *)

\* the mark of the axis for the instant t, by the claim: at the fraction
\* (hour * 60 + minute) / 1440 for an hour and a minute of the day
MarkOf(key, t) ==
    \E hour \in 0..23 : \E minute \in 0..59 :
        /\ hour = getHours(zone, t) /\ minute = getMinutes(zone, t)
        /\ \E m \in DOMAIN dom.axis.special :
              /\ dom.axis.special[m].key = key
              /\ dom.axis.special[m].left = <<hour * 60 + minute, 1440>>

\* C22: where sunrise and sunset are available the axis has one sunrise mark
\* and one sunset mark, each at (hour * 60 + minute) / 1440 of the width,
\* and none where they are null; the hour labels are 00:00, 06:00, 12:00 and
\* 18:00 at a quarter of the width from one another.
C22_AxisMarks ==
    dom.rendered =>
        /\ sunTimes.set =>
              /\ Len(dom.axis.special) = 2
              /\ MarkOf("sunrise", sunTimes.sunrise)
              /\ MarkOf("sunset", sunTimes.sunset)
        /\ ~sunTimes.set => dom.axis.special = <<>>
        /\ {<<dom.axis.labels[i].label, dom.axis.labels[i].left>> : i \in DOMAIN dom.axis.labels}
              = {<<(<<hour, 0>>), (<<hour, 24>>)>> : hour \in {0, 6, 12, 18}}

\* the ticks drawn at the minute m of the axis, by kind and key
TicksAt(m) ==
    {<<"regular", i>> : i \in {j \in DOMAIN dom.axis.ticks :
                                 dom.axis.ticks[j].drawn /\ dom.axis.ticks[j].left = <<m, 1440>>}}
    \cup {<<"special", t>> : t \in {u \in DOMAIN dom.axis.special :
                                      dom.axis.special[u].left = <<m, 1440>>}}

AtSunriseOrSunset(m) ==
    sunTimes.set /\ m \in {MinuteOfDay(zone, sunTimes.sunrise), MinuteOfDay(zone, sunTimes.sunset)}

\* C25: at each of the positions 0, 15, ..., 1440 of the axis the regular
\* tick is drawn unless sunrise or sunset is at that minute of the day, the
\* sunrise and sunset ticks are always drawn, and so no position has more
\* than one tick.
C25_OneTick ==
    dom.rendered =>
        /\ DOMAIN dom.axis.ticks = 0..96
        /\ \A i \in 0..96 :
              /\ dom.axis.ticks[i].drawn <=> ~AtSunriseOrSunset(15 * i)
              /\ Cardinality(TicksAt(15 * i)) <= 1
        /\ sunTimes.set => Len(dom.axis.special) = 2

\* sunrise at 08:00 and sunset at 20:00: their ticks stand for the regular
\* ticks of 08:00 and 20:00, the ticks of 08:15 and 19:45 are drawn
C25_Witness ==
    /\ dom.rendered
    /\ sunTimes.set
    /\ MinuteOfDay(zone, sunTimes.sunrise) = 8 * 60
    /\ MinuteOfDay(zone, sunTimes.sunset) = 20 * 60
    /\ TicksAt(8 * 60) = {<<"special", 1>>}
    /\ TicksAt(20 * 60) = {<<"special", 2>>}
    /\ TicksAt(8 * 60 + 15) = {<<"regular", 33>>}
    /\ TicksAt(20 * 60 - 15) = {<<"regular", 79>>}

\* C26: wherever the pointer is, left of the chart and right of it too,
\* handleMouseMove reads elements within the samples and the hover time is
\* between the first and the last sample's instant; after a mouse leave the
\* hover state is null.
C26_HoverWithinSamples ==
    /\ event.field = "mousemove" =>
          /\ {event.lowerIndex, event.upperIndex} \subseteq 0..(Len(sunPositionData) - 1)
          /\ hoverPosition.set
          /\ hoverPosition.x = <<event.x, event.width>>
          /\ hoverPosition.time >= sunPositionData[1].time
          /\ hoverPosition.time <= sunPositionData[Len(sunPositionData)].time
    /\ event.field = "mouseleave" => hoverPosition = NoHover

\* the pointer 7 pixels right of the chart: the hover time is the last sample's
C26_Witness ==
    /\ event.field = "mousemove"
    /\ event.x = event.width + 7
    /\ event.lowerIndex = Len(sunPositionData) - 1
    /\ event.upperIndex = Len(sunPositionData) - 1
    /\ hoverPosition.set
    /\ hoverPosition.time = sunPositionData[Len(sunPositionData)].time

\* C29: each of the five rows has one segment per sample; segment i (from 0)
\* is at i/N of the row and 1/N wide, and its left edge is the position
\* (minute of the day / 1440) the axis gives to the instant of sample i.
C29_SegmentsOnAxis ==
    dom.rendered =>
        /\ Len(dom.rows) = 5
        /\ \A b \in DOMAIN dom.rows :
              LET row == dom.rows[b]
                  N == Len(sunPositionData)
              IN  /\ DOMAIN row = 1..N
                  /\ \A i \in 1..N :
                        /\ row[i].key = sunPositionData[i].time
                        /\ row[i].left = <<i - 1, N>>
                        /\ row[i].width = <<1, N>>
                        /\ (i - 1) * 1440 = N * MinuteOfDay(zone, sunPositionData[i].time)

\* the pointer is on the chart
OnChart == event.field = "mousemove" /\ event.x >= 0 /\ event.x <= event.width

\* C30: the hover label at the left edge of the segment of sample i shows
\* the instant of sample i, and at the right edge of the chart the end of
\* the day.
C30_HoverOnAxis ==
    (OnChart /\ hoverPosition.set) =>
        LET N == Len(sunPositionData)
        IN  /\ \A i \in 1..N :
                  event.x * N = (i - 1) * event.width =>
                      hoverPosition.time = sunPositionData[i].time
            /\ event.x = event.width =>
                  hoverPosition.time = EndOfDay(zone, sunPositionData[1].time) + 1

----------------------------------------------------------------------------
(* The rays of the map: claims                                             *)

\* the instant's half hour of the local clock, down and up
HalfHourDown(z, t) == t - (LocalTime(z, t) % (30 * MinuteMs))
HalfHourUp(z, t) == t + ((-LocalTime(z, t)) % (30 * MinuteMs))

RegularRays == SelectSeq(rays.rays, LAMBDA r : ~r.isSunrise /\ ~r.isSunset)

\* C23: every regular ray is at an instant of the 30-minute grid between
\* sunrise rounded down to a half hour and sunset rounded up to a half
\* hour, consecutive candidate instants are 30 minutes apart, and a regular
\* ray is pushed only where the sun's altitude at its instant is > 0.
C23_RegularRays ==
    rays.pc # "idle" =>
        /\ \A i \in 1..Len(RegularRays) :
              LET r == RegularRays[i]
              IN  /\ LocalTime(zone, r.time) % (30 * MinuteMs) = 0
                  /\ rays.sunrise # InvalidDate /\ rays.sunset # InvalidDate
                  /\ HalfHourDown(zone, rays.sunrise) <= r.time
                  /\ r.time <= HalfHourUp(zone, rays.sunset)
                  /\ ProviderPosition(r.time, lat, lon).altitude > 0
                  /\ r.altitude = ProviderPosition(r.time, lat, lon).altitude
        /\ \A i \in 1..(Len(rays.candidates) - 1) :
              rays.candidates[i + 1] - rays.candidates[i] = 30 * MinuteMs

============================================================================
